---- MODULE Spec2Model ----
(* Model of app/main.py: the FastAPI service for OSS Note 2217124.          *)
(* POST /assess-2217124 validates a JSON array of NoteContext records,      *)
(* calls the model chain once per record, in order, and returns one result  *)
(* per record; GET /health reports the configured model identifier.         *)
EXTENDS Integers, Sequences, FiniteSets, TLC

(***************************************************************************)
(* Bounds                                                                  *)
(***************************************************************************)
MaxItems == 2
MaxRequests == 2
MaxHealth == 2
MaxFields == 3

(***************************************************************************)
(* JSON values.  A value carries its kind in t, so that values of          *)
(* different kinds can be compared.                                        *)
(***************************************************************************)
JNull == [t |-> "null"]
JStr(s) == [t |-> "str", s |-> s]
JInt(n) == [t |-> "int", n |-> n]
JList(l) == [t |-> "list", l |-> l]
JDict(d) == [t |-> "dict", d |-> d]

\* Python truthiness of a JSON value (the test "if x").
Truthy(x) ==
  CASE x.t = "null" -> FALSE
    [] x.t = "str" -> x.s # ""
    [] x.t = "int" -> x.n # 0
    [] x.t = "list" -> x.l # <<>>
    [] x.t = "dict" -> DOMAIN x.d # {}

\* The characters of a string.  The strings given as a whole field value
\* are "" and "KN"; any other string stands for a single character.
Chars(s) ==
  CASE s = "" -> <<>>
    [] s = "KN" -> <<"K", "N">>
    [] OTHER -> <<s>>

\* iter(v) succeeds on lists, strings and objects; it raises TypeError on
\* null and on numbers.
Iterable(v) == v.t \in {"list", "str", "dict"}

\* The keys of an object as a sequence (an object input is iterated by key).
KeysOf(d) ==
  CHOOSE q \in [1..Cardinality(DOMAIN d) -> DOMAIN d] :
    \A k \in DOMAIN d : \E j \in DOMAIN q : q[j] = k

\* The sequence of elements "for x in v" visits.
Iterate(v) ==
  CASE v.t = "list" -> v.l
    [] v.t = "str" -> [j \in 1..Len(Chars(v.s)) |-> JStr(Chars(v.s)[j])]
    [] v.t = "dict" -> [j \in 1..Cardinality(DOMAIN v.d) |-> JStr(KeysOf(v.d)[j])]

(***************************************************************************)
(* Validation (pydantic).  An outcome is "ok" with the validated value,    *)
(* "invalid" (a ValidationError, answered 422) or "crash" (an exception    *)
(* that is not a validation error, answered 500).                          *)
(***************************************************************************)
Ok(v) == [status |-> "ok", value |-> v]
Invalid == [status |-> "invalid"]
Crash == [status |-> "crash"]

\* Errors are collected over all fields and items; an exception that is not
\* a validation error propagates.
Combine(outs) ==
  IF \E j \in DOMAIN outs : outs[j].status = "crash" THEN "crash"
  ELSE IF \E j \in DOMAIN outs : outs[j].status = "invalid" THEN "invalid"
  ELSE "ok"

\* A field declared "str": required.
ValidateStr(obj, key) ==
  IF key \notin DOMAIN obj THEN Invalid
  ELSE IF obj[key].t = "str" THEN Ok(obj[key])
  ELSE Invalid

\* A field declared "Optional[str] = None".
ValidateOptStr(obj, key) ==
  IF key \notin DOMAIN obj THEN Ok(JNull)
  ELSE IF obj[key].t \in {"str", "null"} THEN Ok(obj[key])
  ELSE Invalid

\* no_none with the test "x is not None" in place of "x".
no_none_NotNone(v) == SelectSeq(Iterate(v), LAMBDA x : x.t # "null")

\* SelectItem.no_none: [x for x in v if x]
no_none(v) == SelectSeq(Iterate(v), Truthy)

\* The type check List[str] on what the before-validator returned.
CheckStrList(w) ==
  IF \A j \in DOMAIN w : w[j].t = "str" THEN Ok(w) ELSE Invalid

\* A field declared "List[str]" with the before-validator no_none.
ValidateStrList(obj, key) ==
  IF key \notin DOMAIN obj THEN Invalid
  ELSE IF ~Iterable(obj[key]) THEN Crash
  ELSE CheckStrList(no_none(obj[key]))

\* The SelectItem built from the outcomes f of its six fields.
BuildSelectItem(f) ==
  IF Combine(f) = "ok"
  THEN Ok([table |-> f[1].value,
           target_type |-> f[2].value,
           target_name |-> f[3].value,
           used_fields |-> f[4].value,
           suggested_fields |-> f[5].value,
           suggested_statement |-> f[6].value])
  ELSE [status |-> Combine(f)]

ValidateSelectItem(raw) ==
  IF raw.t # "dict" THEN Invalid
  ELSE BuildSelectItem(<< ValidateStr(raw.d, "table"),
                          ValidateStr(raw.d, "target_type"),
                          ValidateStr(raw.d, "target_name"),
                          ValidateStrList(raw.d, "used_fields"),
                          ValidateStrList(raw.d, "suggested_fields"),
                          ValidateOptStr(raw.d, "suggested_statement") >>)

\* The list built from the outcomes of its elements.
BuildList(outs) ==
  IF Combine(outs) = "ok"
  THEN Ok([j \in DOMAIN outs |-> outs[j].value])
  ELSE [status |-> Combine(outs)]

\* A field declared "List[SelectItem] = Field(default_factory=list)".
ValidateUsages(obj) ==
  IF "cm_obj_usage" \notin DOMAIN obj THEN Ok(<<>>)
  ELSE IF obj["cm_obj_usage"].t # "list" THEN Invalid
  ELSE BuildList([j \in DOMAIN obj["cm_obj_usage"].l |->
                    ValidateSelectItem(obj["cm_obj_usage"].l[j])])

\* The NoteContext built from the outcomes f of its five fields.
BuildNoteContext(f) ==
  IF Combine(f) = "ok"
  THEN Ok([pgm_name |-> f[1].value,
           inc_name |-> f[2].value,
           type |-> f[3].value,
           name |-> f[4].value,
           cm_obj_usage |-> f[5].value])
  ELSE [status |-> Combine(f)]

ValidateNoteContext(raw) ==
  IF raw.t # "dict" THEN Invalid
  ELSE BuildNoteContext(<< ValidateOptStr(raw.d, "pgm_name"),
                           ValidateOptStr(raw.d, "inc_name"),
                           ValidateOptStr(raw.d, "type"),
                           ValidateOptStr(raw.d, "name"),
                           ValidateUsages(raw.d) >>)

\* Validation that stops at the first record that fails and hands the
\* records before it to the handler.
FirstBad(outs) ==
  IF \A j \in DOMAIN outs : outs[j].status = "ok" THEN Len(outs) + 1
  ELSE CHOOSE j \in DOMAIN outs :
         /\ outs[j].status # "ok"
         /\ \A k \in 1..(j - 1) : outs[k].status = "ok"

BuildPrefix(outs) == Ok([j \in 1..(FirstBad(outs) - 1) |-> outs[j].value])

ValidateBody_Lazy(b) ==
  BuildPrefix([j \in DOMAIN b |-> ValidateNoteContext(b[j])])

\* The body parameter "ctxs: List[NoteContext]": the whole array is
\* validated before the handler runs.
ValidateBody(b) == BuildList([j \in DOMAIN b |-> ValidateNoteContext(b[j])])

(***************************************************************************)
(* Inputs: the request bodies and the outcomes of the model chain.         *)
(***************************************************************************)
UsageOk ==
  JDict([table |-> JStr("S066"), target_type |-> JStr("TABLE"),
         target_name |-> JStr("S066"),
         used_fields |-> JList(<<JStr("KUNNR"), JStr(""), JNull>>),
         suggested_fields |-> JList(<<JStr("UKM_ITEM")>>)])

UsageNoTable ==
  JDict([target_type |-> JStr("TABLE"), target_name |-> JStr("S066"),
         used_fields |-> JList(<<JStr("KUNNR")>>),
         suggested_fields |-> JList(<<>>)])

UsageNullFields ==
  JDict([table |-> JStr("S067"), target_type |-> JStr("TABLE"),
         target_name |-> JStr("S067"),
         used_fields |-> JNull,
         suggested_fields |-> JList(<<>>)])

UsageStrFields ==
  JDict([table |-> JStr("S067"), target_type |-> JStr("TABLE"),
         target_name |-> JStr("S067"),
         used_fields |-> JStr("KN"),
         suggested_fields |-> JList(<<>>),
         suggested_statement |-> JNull])

UsageIntEntry ==
  JDict([table |-> JStr("S066"), target_type |-> JStr("TABLE"),
         target_name |-> JStr("S066"),
         used_fields |-> JList(<<JInt(5)>>),
         suggested_fields |-> JList(<<>>)])

\* The raw records a request body is built from.
Items ==
  { JDict([pgm_name |-> JStr("Z_CM"), inc_name |-> JStr("Z_CM_I01"),
           type |-> JStr("FORM"), name |-> JStr("CHECK_CREDIT")]),
    JDict([pgm_name |-> JStr("Z_SD"), inc_name |-> JNull,
           cm_obj_usage |-> JList(<<UsageOk, UsageOk>>)]),
    JDict([pgm_name |-> JStr("Z_NT"), cm_obj_usage |-> JList(<<UsageNoTable>>)]),
    JDict([pgm_name |-> JStr("Z_NF"), cm_obj_usage |-> JList(<<UsageNullFields>>)]),
    JDict([pgm_name |-> JStr("Z_SF"), type |-> JStr("CLAS"),
           cm_obj_usage |-> JList(<<UsageStrFields>>)]),
    JDict([pgm_name |-> JStr("Z_IE"), cm_obj_usage |-> JList(<<UsageIntEntry>>)]),
    JDict([pgm_name |-> JInt(7)]) }

Bodies == UNION { [1..n -> Items] : n \in 0..MaxItems }

\* What chain.invoke returns: any JSON value the parser produced ...
Replies ==
  { JDict([assessment |-> JStr("risk"), llm_prompt |-> JStr("fix")]),
    JDict([assessment |-> JStr("risk")]),
    JDict([llm_prompt |-> JStr("fix")]),
    JDict(<<>>),
    JDict([assessment |-> JNull, llm_prompt |-> JStr("fix")]),
    JList(<<>>),
    JStr("risk") }

\* ... or the message of the exception it raises.
Errors == {"Connection error.", "Invalid json output"}

Returned(v) == [kind |-> "return", value |-> v]
Raised(e) == [kind |-> "raise", msg |-> e]

\* The process environment at startup.
Environments == { <<>>, [OPENAI_MODEL |-> "gpt-4o-mini"] }

\* os.getenv(key, default)
getenv(e, key, default) == IF key \in DOMAIN e THEN e[key] ELSE default

(***************************************************************************)
(* Summarizer and model call                                               *)
(***************************************************************************)
\* SelectItem.model_dump()
model_dump(item) ==
  [table |-> item.table,
   target_type |-> item.target_type,
   target_name |-> item.target_name,
   used_fields |-> item.used_fields,
   suggested_fields |-> item.suggested_fields,
   suggested_statement |-> item.suggested_statement]

\* A summary that keeps the first usage only.
summarize_context_First(ctx) ==
  [unit_program |-> ctx.pgm_name,
   unit_include |-> ctx.inc_name,
   unit_type |-> ctx.type,
   unit_name |-> ctx.name,
   cm_obj_usage |-> [j \in (DOMAIN ctx.cm_obj_usage) \cap {1} |->
                       model_dump(ctx.cm_obj_usage[j])]]

summarize_context(ctx) ==
  [unit_program |-> ctx.pgm_name,
   unit_include |-> ctx.inc_name,
   unit_type |-> ctx.type,
   unit_name |-> ctx.name,
   cm_obj_usage |-> [j \in DOMAIN ctx.cm_obj_usage |-> model_dump(ctx.cm_obj_usage[j])]]

\* The argument llm_assess hands to chain.invoke (context_json is the
\* summary, which json.dumps serialises).
llm_assess(ctx) ==
  [context_json |-> summarize_context(ctx),
   pgm_name |-> ctx.pgm_name,
   inc_name |-> ctx.inc_name,
   type |-> ctx.type,
   name |-> ctx.name]

(***************************************************************************)
(* Request handler                                                         *)
(***************************************************************************)
\* dict.get(key, default)
get(d, key, default) == IF key \in DOMAIN d THEN d[key] ELSE default

\* A result with type and name exchanged.
ResultOf_Swapped(ctx, llm_result) ==
  [pgm_name |-> ctx.pgm_name,
   inc_name |-> ctx.inc_name,
   type |-> ctx.name,
   name |-> ctx.type,
   code |-> JStr(""),
   assessment |-> get(llm_result.d, "assessment", JStr("")),
   llm_prompt |-> get(llm_result.d, "llm_prompt", JStr(""))]

\* The result appended for one item.
ResultOf(ctx, llm_result) ==
  [pgm_name |-> ctx.pgm_name,
   inc_name |-> ctx.inc_name,
   type |-> ctx.type,
   name |-> ctx.name,
   code |-> JStr(""),
   assessment |-> get(llm_result.d, "assessment", JStr("")),
   llm_prompt |-> get(llm_result.d, "llm_prompt", JStr(""))]

NoResponse == [status |-> 0]

\* An except clause that returns what was collected so far.
OnException_Partial(acc, e) == [status |-> 200, body |-> acc]

\* raise HTTPException(status_code=502, detail=f"LLM call failed: {e}")
OnException(acc, e) == [status |-> 502, detail |-> "LLM call failed: " \o e]

\* An exception that escapes the handler or the validation of the body.
InternalServerError == [status |-> 500, detail |-> "Internal Server Error"]

\* The answer to a body that fails validation.
UnprocessableEntity == [status |-> 422, detail |-> "validation error"]

\* return results
OnReturn(acc) == [status |-> 200, body |-> acc]

\* The index of the item the loop turns to once acc holds the results of
\* the items before it.
NextItem(acc) == Len(acc) + 1

\* A health response that reports the default model.
health_Default(model) == [ok |-> TRUE, model |-> "gpt-4o"]

\* health()
health(model) == [ok |-> TRUE, model |-> model]

VARIABLES
  env,           \* the process environment
  OPENAI_MODEL,  \* the module-level constant read at startup
  pc,            \* "idle", "await" (blocked in chain.invoke) or "done"
  body,          \* the raw body of the request being served
  ctxs,          \* the validated body, the handler's parameter
  results,       \* the handler's local list
  calls,         \* the outbound model calls of this request, in order
  llm_results,   \* the outcomes of those calls, in order
  response,      \* the response to the request
  served,        \* the number of requests answered before this one
  healthSeen,    \* the number of health requests answered
  healthResp,    \* the last health response
  raw_usage,     \* a raw usage object under validation
  usage_out      \* its validation outcome

vars == << env, OPENAI_MODEL, pc, body, ctxs, results, calls, llm_results,
           response, served, healthSeen, healthResp, raw_usage, usage_out >>

reqVars == << pc, body, ctxs, results, calls, llm_results, response >>
cfgVars == << env, OPENAI_MODEL >>
valVars == << raw_usage, usage_out >>

NoUsage == [t |-> "none"]
NoOutcome == [status |-> "none"]

Init ==
  /\ env \in Environments
  /\ OPENAI_MODEL = getenv(env, "OPENAI_MODEL", "gpt-4o")
  /\ pc = "idle"
  /\ body = <<>>
  /\ ctxs = <<>>
  /\ results = <<>>
  /\ calls = <<>>
  /\ llm_results = <<>>
  /\ response = NoResponse
  /\ served = 0
  /\ healthSeen = 0
  /\ healthResp = NoResponse
  /\ raw_usage = NoUsage
  /\ usage_out = NoOutcome

\* A loop that calls the model for the first item again.
CallFor_First(cs, i) == [item |-> 1, input |-> llm_assess(cs[1])]

\* The call made for item i.
CallFor(cs, i) == [item |-> i, input |-> llm_assess(cs[i])]

\* POST /assess-2217124 with a body that fails validation: the handler is
\* not entered.
Rejected(b, out) ==
  /\ pc = "idle"
  /\ out.status # "ok"
  /\ body' = b
  /\ response' = IF out.status = "crash"
                 THEN InternalServerError ELSE UnprocessableEntity
  /\ pc' = "done"
  /\ UNCHANGED << ctxs, results, calls, llm_results, served, healthSeen,
                  healthResp >>
  /\ UNCHANGED cfgVars /\ UNCHANGED valVars

PostRejected == \E b \in Bodies : Rejected(b, ValidateBody(b))

\* POST /assess-2217124 with a valid body: the handler runs up to its first
\* model call, or to its return when the batch is empty.
Accepted(b, out) ==
  /\ pc = "idle"
  /\ out.status = "ok"
  /\ body' = b
  /\ ctxs' = out.value
  /\ results' = <<>>
  /\ llm_results' = <<>>
  /\ IF NextItem(<<>>) > Len(ctxs')
     THEN /\ calls' = <<>>
          /\ response' = OnReturn(<<>>)
          /\ pc' = "done"
     ELSE /\ calls' = << CallFor(ctxs', NextItem(<<>>)) >>
          /\ response' = NoResponse
          /\ pc' = "await"
  /\ UNCHANGED << served, healthSeen, healthResp >>
  /\ UNCHANGED cfgVars /\ UNCHANGED valVars

PostAccepted == \E b \in Bodies : Accepted(b, ValidateBody(b))

\* chain.invoke returns a JSON object: the result is appended and the loop
\* goes on to the next model call, or returns.
ModelReturnsDict ==
  \E v \in Replies :
    /\ pc = "await"
    /\ v.t = "dict"
    /\ llm_results' = Append(llm_results, Returned(v))
    /\ results' = Append(results, ResultOf(ctxs[Len(calls)], v))
    /\ IF NextItem(results') > Len(ctxs)
       THEN /\ calls' = calls
            /\ response' = OnReturn(results')
            /\ pc' = "done"
       ELSE /\ calls' = Append(calls, CallFor(ctxs, NextItem(results')))
            /\ response' = NoResponse
            /\ pc' = "await"
    /\ UNCHANGED << body, ctxs, served, healthSeen, healthResp >>
    /\ UNCHANGED cfgVars /\ UNCHANGED valVars

\* chain.invoke returns a JSON value that is not an object: llm_result.get
\* raises AttributeError outside the try block.
ModelReturnsOther ==
  \E v \in Replies :
    /\ pc = "await"
    /\ v.t # "dict"
    /\ llm_results' = Append(llm_results, Returned(v))
    /\ response' = InternalServerError
    /\ pc' = "done"
    /\ UNCHANGED << body, ctxs, results, calls, served, healthSeen, healthResp >>
    /\ UNCHANGED cfgVars /\ UNCHANGED valVars

\* chain.invoke raises: the except clause answers 502.
ModelRaises ==
  \E e \in Errors :
    /\ pc = "await"
    /\ llm_results' = Append(llm_results, Raised(e))
    /\ response' = OnException(results, e)
    /\ pc' = "done"
    /\ UNCHANGED << body, ctxs, results, calls, served, healthSeen, healthResp >>
    /\ UNCHANGED cfgVars /\ UNCHANGED valVars

\* GET /health, at any time.
Health ==
  /\ healthSeen < MaxHealth
  /\ healthSeen' = healthSeen + 1
  /\ healthResp' = health(OPENAI_MODEL)
  /\ UNCHANGED served
  /\ UNCHANGED reqVars /\ UNCHANGED cfgVars /\ UNCHANGED valVars

\* The response is sent and the request's objects are discarded.
NextRequest ==
  /\ pc = "done"
  /\ served < MaxRequests
  /\ served' = served + 1
  /\ pc' = "idle"
  /\ body' = <<>>
  /\ ctxs' = <<>>
  /\ results' = <<>>
  /\ calls' = <<>>
  /\ llm_results' = <<>>
  /\ response' = NoResponse
  /\ UNCHANGED << healthSeen, healthResp >>
  /\ UNCHANGED cfgVars /\ UNCHANGED valVars

Next ==
  \/ PostRejected
  \/ PostAccepted
  \/ ModelReturnsDict
  \/ ModelReturnsOther
  \/ ModelRaises
  \/ Health
  \/ NextRequest

Spec == Init /\ [][Next]_vars

(***************************************************************************)
(* Validation of single usage objects, over all field lists up to          *)
(* MaxFields entries.                                                      *)
(***************************************************************************)
Entries == {JNull, JStr(""), JStr("KUNNR"), JStr("KKBER"), JInt(0), JInt(5)}

FieldLists(n) == UNION { [1..m -> Entries] : m \in 0..n }

Size(v) == IF v.t = "list" THEN Len(v.l) ELSE 1

FieldValues ==
  { JList(q) : q \in FieldLists(MaxFields) } \cup {JNull, JStr("KN"), JInt(3)}

RawUsages ==
  { JDict([table |-> JStr("S066"), target_type |-> JStr("TABLE"),
           target_name |-> JStr("S066"),
           used_fields |-> u, suggested_fields |-> g]) :
      <<u, g>> \in { w \in FieldValues \X FieldValues :
                       Size(w[1]) + Size(w[2]) <= MaxFields } }

InitValidation ==
  /\ env \in Environments
  /\ OPENAI_MODEL = getenv(env, "OPENAI_MODEL", "gpt-4o")
  /\ pc = "idle"
  /\ body = <<>>
  /\ ctxs = <<>>
  /\ results = <<>>
  /\ calls = <<>>
  /\ llm_results = <<>>
  /\ response = NoResponse
  /\ served = 0
  /\ healthSeen = 0
  /\ healthResp = NoResponse
  /\ raw_usage \in RawUsages
  /\ usage_out = NoOutcome

\* SelectItem.model_validate(raw_usage)
ValidateUsage ==
  /\ usage_out = NoOutcome
  /\ usage_out' = ValidateSelectItem(raw_usage)
  /\ UNCHANGED raw_usage
  /\ UNCHANGED << served, healthSeen, healthResp >>
  /\ UNCHANGED reqVars /\ UNCHANGED cfgVars

NextValidation == ValidateUsage

ValidationSpec == InitValidation /\ [][NextValidation]_vars

(***************************************************************************)
(* Properties                                                              *)
(***************************************************************************)
\* The value a raw record gives for an optional key.
RawField(raw, key) == get(raw.d, key, JNull)

\* The raw usage objects of a raw record.
RawUsagesOf(raw) == get(raw.d, "cm_obj_usage", JList(<<>>)).l

BodyValid == \A k \in DOMAIN body : ValidateNoteContext(body[k]).status = "ok"

Succeeded(o) == o.kind = "return" /\ o.value.t = "dict"
Failed(o) == ~Succeeded(o)

AllSucceeded ==
  /\ Len(llm_results) = Len(body)
  /\ \A k \in DOMAIN llm_results : Succeeded(llm_results[k])

\* C1: a valid batch of N items whose model calls all succeed is answered
\* with an array of N results; result i echoes pgm_name, inc_name, type and
\* name of input item i and has code "".
C1_AllSucceedArray ==
  (pc = "done" /\ BodyValid /\ AllSucceeded) =>
    /\ response.status = 200
    /\ Len(response.body) = Len(body)
    /\ \A k \in DOMAIN body :
         /\ response.body[k].pgm_name = RawField(body[k], "pgm_name")
         /\ response.body[k].inc_name = RawField(body[k], "inc_name")
         /\ response.body[k].type = RawField(body[k], "type")
         /\ response.body[k].name = RawField(body[k], "name")
         /\ response.body[k].code = JStr("")

C1_Witness ==
  /\ pc = "done" /\ BodyValid /\ AllSucceeded
  /\ Len(body) = MaxItems
  /\ body[1] # body[2]
  /\ response.status = 200

\* C2: when the model call for some item of a valid batch fails, the
\* response is a single error and carries no result array, neither the full
\* one nor the results collected before the failure.
C2_FailureIsSingleError ==
  (pc = "done" /\ BodyValid /\ \E k \in DOMAIN llm_results : Failed(llm_results[k])) =>
    /\ response.status \in {500, 502}
    /\ "body" \notin DOMAIN response
    /\ "detail" \in DOMAIN response

C2_Witness ==
  /\ pc = "done" /\ BodyValid
  /\ Len(llm_results) = 2
  /\ Succeeded(llm_results[1])
  /\ llm_results[2].kind = "raise"
  /\ Len(results) = 1
  /\ response.status = 502

\* C3: a body with a record that fails validation, in any position, is
\* rejected with no model call made for the request.
C3_RejectedBeforeAnyCall ==
  (\E k \in DOMAIN body : ValidateNoteContext(body[k]).status # "ok") =>
    /\ calls = <<>>
    /\ llm_results = <<>>
    /\ pc = "done"
    /\ response.status \in {422, 500}

C3_Witness ==
  /\ pc = "done"
  /\ Len(body) = 2
  /\ ValidateNoteContext(body[1]).status = "ok"
  /\ ValidateNoteContext(body[2]).status = "invalid"
  /\ RawUsagesOf(body[2]) # <<>>
  /\ "table" \notin DOMAIN RawUsagesOf(body[2])[1].d
  /\ calls = <<>>

NonEmptyStr(x) == x.t = "str" /\ x.s # ""

FilteredClean(raw, key, out) ==
  /\ \A j \in DOMAIN out : out[j] # JNull /\ out[j] # JStr("")
  /\ out = SelectSeq(Iterate(raw.d[key]), NonEmptyStr)
  /\ no_none(JList(out)) = out

\* C4: in every usage object that validates, used_fields and
\* suggested_fields hold no null and no empty string, keep the other
\* entries in their original order, and are left as they are by a second
\* application of no_none.
C4_FilteredFields ==
  usage_out.status = "ok" =>
    /\ FilteredClean(raw_usage, "used_fields", usage_out.value.used_fields)
    /\ FilteredClean(raw_usage, "suggested_fields", usage_out.value.suggested_fields)

C4_Witness ==
  /\ usage_out.status = "ok"
  /\ raw_usage.d["used_fields"] = JList(<<JStr("KUNNR"), JStr(""), JNull>>)
  /\ usage_out.value.used_fields = <<JStr("KUNNR")>>

\* The declared type List[str] of a field whose null and empty entries are
\* filtered: a list of strings and nulls.
ConformsStrList(obj, key) ==
  /\ key \in DOMAIN obj
  /\ obj[key].t = "list"
  /\ \A j \in DOMAIN obj[key].l : obj[key].l[j].t \in {"str", "null"}

ConformsStr(obj, key) == key \in DOMAIN obj /\ obj[key].t = "str"

ConformsOptStr(obj, key) == key \in DOMAIN obj => obj[key].t \in {"str", "null"}

ConformsSelectItem(raw) ==
  /\ raw.t = "dict"
  /\ ConformsStr(raw.d, "table")
  /\ ConformsStr(raw.d, "target_type")
  /\ ConformsStr(raw.d, "target_name")
  /\ ConformsStrList(raw.d, "used_fields")
  /\ ConformsStrList(raw.d, "suggested_fields")
  /\ ConformsOptStr(raw.d, "suggested_statement")

ConformsNoteContext(raw) ==
  /\ raw.t = "dict"
  /\ ConformsOptStr(raw.d, "pgm_name")
  /\ ConformsOptStr(raw.d, "inc_name")
  /\ ConformsOptStr(raw.d, "type")
  /\ ConformsOptStr(raw.d, "name")
  /\ "cm_obj_usage" \in DOMAIN raw.d =>
       /\ raw.d["cm_obj_usage"].t = "list"
       /\ \A j \in DOMAIN raw.d["cm_obj_usage"].l :
            ConformsSelectItem(raw.d["cm_obj_usage"].l[j])

\* C5: a body with a record that violates the schema (a required usage
\* field missing, a field of the wrong type, used_fields or
\* suggested_fields null or not a sequence) is answered 422 and yields no
\* result array.
C5_SchemaViolationIs422 ==
  (pc = "done" /\ \E k \in DOMAIN body : ~ConformsNoteContext(body[k])) =>
    /\ response.status = 422
    /\ "body" \notin DOMAIN response

\* C6: every failure at the model stage (the call raises, or the reply is
\* not a JSON object) is answered 502 with a detail that embeds the failure
\* message, and ends the batch.
C6_ModelFailureIs502 ==
  (pc = "done" /\ llm_results # <<>> /\ Failed(llm_results[Len(llm_results)])) =>
    /\ response.status = 502
    /\ "body" \notin DOMAIN response
    /\ llm_results[Len(llm_results)].kind = "raise" =>
         response.detail = "LLM call failed: " \o llm_results[Len(llm_results)].msg

HealthAnswer ==
  healthSeen > 0 =>
    healthResp = [ok |-> TRUE, model |-> getenv(env, "OPENAI_MODEL", "gpt-4o")]

HealthStep ==
  healthSeen' # healthSeen =>
    /\ calls' = calls
    /\ llm_results' = llm_results
    /\ env' = env

\* C7: every health response is {ok: true, model: the configured model},
\* whatever assessment requests came before, and answering it makes no
\* model call.
C7_HealthConfiguredModel == [] HealthAnswer /\ [][HealthStep]_vars

C7_Witness ==
  /\ healthSeen = MaxHealth
  /\ served > 0
  /\ pc = "done"
  /\ response.status = 502
  /\ "OPENAI_MODEL" \in DOMAIN env

SummaryMatches(k) ==
  LET s == calls[k].input.context_json
      raw == body[calls[k].item]
  IN  /\ Len(s.cm_obj_usage) = Len(RawUsagesOf(raw))
      /\ \A j \in DOMAIN s.cm_obj_usage :
           /\ DOMAIN s.cm_obj_usage[j] =
                {"table", "target_type", "target_name", "used_fields",
                 "suggested_fields", "suggested_statement"}
           /\ s.cm_obj_usage[j].table = RawUsagesOf(raw)[j].d["table"]
           /\ s.cm_obj_usage[j].target_name = RawUsagesOf(raw)[j].d["target_name"]
           /\ s.cm_obj_usage[j].used_fields = ctxs[calls[k].item].cm_obj_usage[j].used_fields
      /\ s.unit_program = RawField(raw, "pgm_name")
      /\ s.unit_include = RawField(raw, "inc_name")
      /\ s.unit_type = RawField(raw, "type")
      /\ s.unit_name = RawField(raw, "name")

SummariesInv ==
  /\ \A k \in DOMAIN calls : SummaryMatches(k)
  /\ \A k, m \in DOMAIN calls :
       body[calls[k].item] = body[calls[m].item] =>
         calls[k].input.context_json = calls[m].input.context_json

ContextKept == (pc = "await" /\ pc' # "idle") => ctxs' = ctxs

C9_SequentialCalls ==
  /\ Len(calls) <= Len(ctxs)
  /\ \A k \in DOMAIN calls :
       /\ calls[k].item = k
       /\ calls[k].input.pgm_name = RawField(body[k], "pgm_name")
  /\ \A k \in DOMAIN llm_results :
       k < Len(calls) => Succeeded(llm_results[k])
  /\ pc = "await" =>
       /\ Len(calls) = Len(llm_results) + 1
       /\ \A k \in DOMAIN llm_results : Succeeded(llm_results[k])
  /\ pc = "done" =>
       /\ Len(calls) = Len(llm_results)
       /\ (\A k \in DOMAIN llm_results : Succeeded(llm_results[k])) =>
            (BodyValid => Len(calls) = Len(body))
       /\ \A k \in DOMAIN llm_results :
            Failed(llm_results[k]) => Len(calls) = k

C9_Witness ==
  /\ pc = "done"
  /\ Len(ctxs) = MaxItems
  /\ Len(calls) = 1
  /\ Failed(llm_results[1])

\* C10: in a successful response assessment and llm_prompt are strings: the
\* value the model returned under the key, or "" when the key is absent.
C10_StringFields ==
  (pc = "done" /\ response.status = 200) =>
    \A k \in DOMAIN response.body :
      LET d == llm_results[k].value.d
          r == response.body[k]
      IN  /\ r.assessment.t = "str"
          /\ r.llm_prompt.t = "str"
          /\ r.assessment = get(d, "assessment", JStr(""))
          /\ r.llm_prompt = get(d, "llm_prompt", JStr(""))

=============================================================================
